---- MODULE Spec2Model ----
(***************************************************************************)
(* A model of log-bundle's error core: the global ErrorConfig (status      *)
(* maps and Sentry status rules), the ErrorData derivations (status,       *)
(* response, eligibility) and the Fastify error pipe.                      *)
(*                                                                         *)
(* Optional values (TypeScript `x?: T`) are sequences of length <= 1:      *)
(* None is `undefined`, Some(v) is a present value.                        *)
(***************************************************************************)
EXTENDS Integers, Sequences, FiniteSets, TLC

VARIABLES
    sentryStatusRules,  \* ErrorConfig.sentryStatusRules: a list of rules
    customStatusMap,    \* ErrorConfig.customStatusMap: category -> status
    customErrorTypes,   \* ErrorConfig.customErrorTypes: category -> status
    enableSentry,       \* logConfig.enableSentry
    held,               \* the rule array a caller holds: per element the rule
                        \* and the index of the active rule that is the same
                        \* object (0 when it is no element of the active list)
    call,               \* the library call in progress: its arguments and result
    proc,               \* the process that setupProcessErrorHandlers guards
    custom,             \* one CustomError instance: cause and stack
    transport           \* core/logger.ts: the shared default transport

runtimeVars == <<proc, custom, transport>>
libraryVars ==
    <<sentryStatusRules, customStatusMap, customErrorTypes, enableSentry, held, call>>
vars == <<libraryVars, runtimeVars>>

None == <<>>
Some(v) == <<v>>
Opt(S) == {None} \cup {Some(v) : v \in S}

\* JavaScript truthiness of an optional string / an optional boolean.
TruthyStr(o) == o # None /\ o[1] # ""
TruthyBool(o) == o = Some(TRUE)

(***************************************************************************)
(* Bounds and input domains                                                *)
(***************************************************************************)
MaxRules == 2

\* The ErrorType enum.
ErrorType ==
    {"internal", "not-found", "validation", "database", "busy", "forbidden",
     "bad-input", "unauthorized", "conflict", "external", "timeout"}

\* Categories outside the enum, used with registerErrorType ("rate_limited")
\* or never registered at all ("teapot").
AdHocTypes == {"rate_limited", "teapot"}

\* Keys and values the configuration calls are made with.
ConfigKeys == {"busy", "rate_limited"}
ConfigStatuses == {429, 500}

\* A rule is a number, a [min, max] pair or {range, exclude?}.
NumberRule(c) == [kind |-> "number", code |-> c]
RangeRule(lo, hi) == [kind |-> "range", min |-> lo, max |-> hi]
ExcludeRule(lo, hi, ex) == [kind |-> "exclude", min |-> lo, max |-> hi, exclude |-> ex]

DefaultRules == <<RangeRule(500, 599)>>

RuleSet ==
    {NumberRule(429), RangeRule(500, 599), ExcludeRule(500, 599, Some(<<503>>)),
     ExcludeRule(400, 499, None)}

RuleLists == UNION {[1..n -> RuleSet] : n \in 0..MaxRules}

\* Statuses the rule engine is asked about: every boundary of the rules above.
ProbeStatuses == {0, 399, 400, 404, 429, 499, 500, 502, 503, 504, 599, 600}

(***************************************************************************)
(* error-types.ts                                                          *)
(***************************************************************************)
\* Mutant of DEFAULT_HTTP_STATUS_MAP: validation is 422.
DEFAULT_HTTP_STATUS_MAP_validation422 ==
    [t \in ErrorType |->
        CASE t = "internal" -> 500
          [] t = "not-found" -> 404
          [] t = "validation" -> 422
          [] t = "database" -> 500
          [] t = "busy" -> 503
          [] t = "forbidden" -> 403
          [] t = "bad-input" -> 400
          [] t = "unauthorized" -> 401
          [] t = "conflict" -> 409
          [] t = "external" -> 502
          [] t = "timeout" -> 504]

DEFAULT_HTTP_STATUS_MAP ==
    [t \in ErrorType |->
        CASE t = "internal" -> 500
          [] t = "not-found" -> 404
          [] t = "validation" -> 400
          [] t = "database" -> 500
          [] t = "busy" -> 503
          [] t = "forbidden" -> 403
          [] t = "bad-input" -> 400
          [] t = "unauthorized" -> 401
          [] t = "conflict" -> 409
          [] t = "external" -> 502
          [] t = "timeout" -> 504]

(***************************************************************************)
(* error-config.ts                                                         *)
(***************************************************************************)
\* Mutant of ruleMatches: the upper bound of a range is excluded.
ruleMatches_exclusiveMax(rule, statusCode) ==
    CASE rule.kind = "number" -> statusCode = rule.code
      [] rule.kind = "range" -> statusCode >= rule.min /\ statusCode < rule.max
      [] rule.kind = "exclude" ->
            LET inRange == statusCode >= rule.min /\ statusCode < rule.max
                isExcluded == IF rule.exclude = None THEN FALSE
                              ELSE \E i \in 1..Len(rule.exclude[1]) :
                                       rule.exclude[1][i] = statusCode
            IN inRange /\ ~isExcluded

ruleMatches(rule, statusCode) ==
    CASE rule.kind = "number" -> statusCode = rule.code
      [] rule.kind = "range" -> statusCode >= rule.min /\ statusCode <= rule.max
      [] rule.kind = "exclude" ->
            LET inRange == statusCode >= rule.min /\ statusCode <= rule.max
                isExcluded == IF rule.exclude = None THEN FALSE
                              ELSE \E i \in 1..Len(rule.exclude[1]) :
                                       rule.exclude[1][i] = statusCode
            IN inRange /\ ~isExcluded

ErrorConfig_shouldSendToSentry(rules, statusCode) ==
    \E i \in 1..Len(rules) : ruleMatches(rules[i], statusCode)

\* Mutant of ErrorConfig_getHttpStatus: the registered types are looked up first.
ErrorConfig_getHttpStatus_registeredFirst(statusMap, errorTypes, errorType, defaultStatus) ==
    IF errorType \in DOMAIN errorTypes THEN errorTypes[errorType]
    ELSE IF errorType \in DOMAIN statusMap THEN statusMap[errorType]
    ELSE defaultStatus

ErrorConfig_getHttpStatus(statusMap, errorTypes, errorType, defaultStatus) ==
    IF errorType \in DOMAIN statusMap THEN statusMap[errorType]
    ELSE IF errorType \in DOMAIN errorTypes THEN errorTypes[errorType]
    ELSE defaultStatus

MapSet(m, k, v) == [x \in DOMAIN m \cup {k} |-> IF x = k THEN v ELSE m[x]]

MapAssign(m, mapping) ==
    [x \in DOMAIN m \cup DOMAIN mapping |->
        IF x \in DOMAIN mapping THEN mapping[x] ELSE m[x]]

EmptyMap == [x \in {} |-> 0]

Mappings == UNION {[D -> ConfigStatuses] : D \in SUBSET ConfigKeys}

(***************************************************************************)
(* error-data.ts                                                           *)
(***************************************************************************)
createErrorData(type, message, public, internal, httpStatus, skipSentry) ==
    [type |-> type, message |-> message, public |-> public,
     internal |-> internal, httpStatus |-> httpStatus, skipSentry |-> skipSentry]

defaultStatusOf(type) ==
    IF type \in DOMAIN DEFAULT_HTTP_STATUS_MAP /\ DEFAULT_HTTP_STATUS_MAP[type] # 0
    THEN DEFAULT_HTTP_STATUS_MAP[type]
    ELSE 500

getHttpStatus(error) ==
    IF error.httpStatus # None THEN error.httpStatus[1]
    ELSE ErrorConfig_getHttpStatus(customStatusMap, customErrorTypes,
                                   error.type, defaultStatusOf(error.type))

\* Mutant of shouldSendToSentry: skipSentry is not looked at.
shouldSendToSentry_ignoresSkip(error) ==
    ErrorConfig_shouldSendToSentry(sentryStatusRules, getHttpStatus(error))

shouldSendToSentry(error) ==
    IF TruthyBool(error.skipSentry) THEN FALSE
    ELSE ErrorConfig_shouldSendToSentry(sentryStatusRules, getHttpStatus(error))

publicField(error, f) == IF error.public = None THEN None ELSE error.public[1][f]

\* Mutant of toErrorResponse: a missing detail falls back to the message.
toErrorResponse_detailFromMessage(error, baseUrl) ==
    LET statusCode == getHttpStatus(error)
        publicType == publicField(error, "type")
        typeUri == IF TruthyStr(publicType)
                   THEN IF TruthyStr(baseUrl)
                        THEN baseUrl[1] \o "/" \o publicType[1]
                        ELSE "urn:problem:" \o publicType[1]
                   ELSE "urn:problem:" \o error.type
        title == publicField(error, "title")
        validationErrors == publicField(error, "validationErrors")
        meta == publicField(error, "meta")
    IN [type |-> typeUri,
        title |-> IF title = None THEN "Error" ELSE title[1],
        status |-> statusCode,
        detail |-> IF publicField(error, "detail") = None THEN Some(error.message)
                   ELSE publicField(error, "detail"),
        instance |-> publicField(error, "instance"),
        errors |-> IF validationErrors # None /\ Len(validationErrors[1]) > 0
                   THEN validationErrors ELSE None,
        meta |-> IF meta # None /\ DOMAIN meta[1] # {} THEN meta ELSE None]

\* Mutant of toErrorResponse: a baseUrl prefixes the category when there is
\* no public type.
toErrorResponse_baseUrlWithoutType(error, baseUrl) ==
    LET statusCode == getHttpStatus(error)
        publicType == publicField(error, "type")
        typeUri == IF TruthyStr(publicType)
                   THEN IF TruthyStr(baseUrl)
                        THEN baseUrl[1] \o "/" \o publicType[1]
                        ELSE "urn:problem:" \o publicType[1]
                   ELSE IF TruthyStr(baseUrl)
                        THEN baseUrl[1] \o "/" \o error.type
                        ELSE "urn:problem:" \o error.type
        title == publicField(error, "title")
        validationErrors == publicField(error, "validationErrors")
        meta == publicField(error, "meta")
    IN [type |-> typeUri,
        title |-> IF title = None THEN "Error" ELSE title[1],
        status |-> statusCode,
        detail |-> publicField(error, "detail"),
        instance |-> publicField(error, "instance"),
        errors |-> IF validationErrors # None /\ Len(validationErrors[1]) > 0
                   THEN validationErrors ELSE None,
        meta |-> IF meta # None /\ DOMAIN meta[1] # {} THEN meta ELSE None]

toErrorResponse(error, baseUrl) ==
    LET statusCode == getHttpStatus(error)
        publicType == publicField(error, "type")
        typeUri == IF TruthyStr(publicType)
                   THEN IF TruthyStr(baseUrl)
                        THEN baseUrl[1] \o "/" \o publicType[1]
                        ELSE "urn:problem:" \o publicType[1]
                   ELSE "urn:problem:" \o error.type
        title == publicField(error, "title")
        validationErrors == publicField(error, "validationErrors")
        meta == publicField(error, "meta")
    IN [type |-> typeUri,
        title |-> IF title = None THEN "Error" ELSE title[1],
        status |-> statusCode,
        detail |-> publicField(error, "detail"),
        instance |-> publicField(error, "instance"),
        errors |-> IF validationErrors # None /\ Len(validationErrors[1]) > 0
                   THEN validationErrors ELSE None,
        meta |-> IF meta # None /\ DOMAIN meta[1] # {} THEN meta ELSE None]

includeDetailsOf(options) ==
    options # None /\ TruthyBool(options[1].includeErrorDetails)

\* Mutant of toHttpResponse: the status is not looked at before the message
\* is copied into detail.
toHttpResponse_anyStatus(error, options) ==
    LET statusCode == getHttpStatus(error)
        body == toErrorResponse(error, None)
    IN [statusCode |-> statusCode,
        body |-> IF includeDetailsOf(options) /\ ~TruthyStr(body.detail)
                 THEN [body EXCEPT !.detail = Some(error.message)]
                 ELSE body]

toHttpResponse(error, options) ==
    LET statusCode == getHttpStatus(error)
        body == toErrorResponse(error, None)
    IN [statusCode |-> statusCode,
        body |-> IF includeDetailsOf(options) /\ statusCode >= 500
                    /\ ~TruthyStr(body.detail)
                 THEN [body EXCEPT !.detail = Some(error.message)]
                 ELSE body]

(***************************************************************************)
(* Inputs of the derivation calls                                          *)
(***************************************************************************)
PublicData(type, title, detail, instance, meta, validationErrors) ==
    [type |-> type, title |-> title, detail |-> detail, instance |-> instance,
     meta |-> meta, validationErrors |-> validationErrors]

InternalData(cause, context, tags) ==
    [cause |-> cause, context |-> context, tags |-> tags]

(***************************************************************************)
(* factories.ts                                                            *)
(***************************************************************************)
optionField(options, f) == IF options = None THEN None ELSE options[1][f]

\* { title, detail, ...options?.public }: a field the caller gives replaces
\* the factory's default.
factoryPublic(title, detail, options) ==
    LET given == optionField(options, "public")
        pick(f, default) == IF given # None /\ given[1][f] # None
                            THEN given[1][f] ELSE default
    IN Some(PublicData(pick("type", None), pick("title", Some(title)),
                       pick("detail", Some(detail)), pick("instance", None),
                       pick("meta", None), pick("validationErrors", None)))

factoryInternal(options) ==
    LET given == optionField(options, "internal")
        pick(f) == IF given = None THEN None ELSE given[1][f]
    IN Some(InternalData(pick("cause"), pick("context"), pick("tags")))

internal(message, options) ==
    createErrorData("internal", message,
        factoryPublic("Internal Server Error", "An unexpected error occurred", options),
        factoryInternal(options),
        optionField(options, "httpStatus"), optionField(options, "skipSentry"))

busy(message, options) ==
    createErrorData("busy", message,
        factoryPublic("Service Unavailable", "The service is temporarily unavailable", options),
        factoryInternal(options),
        optionField(options, "httpStatus"), optionField(options, "skipSentry"))

\* Mutant of factoryInternalWith: the factory's own keys win.
factoryInternalWith_autoWins(auto, options) ==
    LET given == optionField(options, "internal")
        pick(f) == IF given = None THEN None ELSE given[1][f]
        context == IF pick("context") = None THEN auto
                   ELSE MapAssign(pick("context")[1], auto)
    IN Some(InternalData(pick("cause"), Some(context), pick("tags")))

\* { ...auto, ...options?.internal?.context }: always an object; a key the
\* caller gives replaces the factory's own.
factoryInternalWith(auto, options) ==
    LET given == optionField(options, "internal")
        pick(f) == IF given = None THEN None ELSE given[1][f]
        context == IF pick("context") = None THEN auto
                   ELSE MapAssign(auto, pick("context")[1])
    IN Some(InternalData(pick("cause"), Some(context), pick("tags")))

\* `${a}${b ? `${sep}${b}` : ""}`
suffixed(a, sep, b) == IF TruthyStr(b) THEN a \o sep \o b[1] ELSE a

\* b ?? fallback
orElse(b, fallback) == IF b = None THEN fallback ELSE b[1]

notFound(resource, id, options) ==
    createErrorData("not-found", resource \o " not found",
        factoryPublic("Resource Not Found",
                      "The requested " \o resource \o " could not be found", options),
        factoryInternalWith(IF id # None
                            THEN [resource |-> resource, resource_id |-> id[1]]
                            ELSE [resource |-> resource], options),
        optionField(options, "httpStatus"), optionField(options, "skipSentry"))

validation(message, field, options) ==
    LET given == optionField(options, "public")
        pick(f, default) == IF given # None /\ given[1][f] # None
                            THEN given[1][f] ELSE default
    IN createErrorData("validation", "validation failed: " \o message,
        Some(PublicData(pick("type", None), pick("title", Some("Validation Failed")),
                        pick("detail", Some(message)), pick("instance", None),
                        pick("meta", None),
                        pick("validationErrors",
                             IF TruthyStr(field)
                             THEN Some(<<[field |-> field[1], message |-> message]>>)
                             ELSE None))),
        factoryInternalWith(IF TruthyStr(field) THEN [field |-> field[1]] ELSE EmptyMap,
                            options),
        optionField(options, "httpStatus"), optionField(options, "skipSentry"))

database(message, options) ==
    createErrorData("database", message,
        factoryPublic("Database Error", "An error occurred while accessing the database",
                      options),
        factoryInternal(options),
        optionField(options, "httpStatus"), optionField(options, "skipSentry"))

forbidden(resource, reason, options) ==
    createErrorData("forbidden",
        "access forbidden: " \o orElse(reason, "insufficient permissions"),
        factoryPublic("Access Forbidden",
                      suffixed("Access to " \o resource \o " is forbidden", ": ", reason),
                      options),
        factoryInternalWith(IF TruthyStr(reason)
                            THEN [resource |-> resource, reason |-> reason[1]]
                            ELSE [resource |-> resource], options),
        optionField(options, "httpStatus"), optionField(options, "skipSentry"))

unauthorized(reason, options) ==
    createErrorData("unauthorized",
        "unauthorized: " \o orElse(reason, "authentication required"),
        factoryPublic("Unauthorized",
                      suffixed("Authentication is required", ": ", reason), options),
        factoryInternalWith(IF TruthyStr(reason) THEN [reason |-> reason[1]] ELSE EmptyMap,
                            options),
        optionField(options, "httpStatus"), optionField(options, "skipSentry"))

badInput(message, options) ==
    createErrorData("bad-input", message,
        factoryPublic("Bad Request", "The request contains invalid input", options),
        factoryInternal(options),
        optionField(options, "httpStatus"), optionField(options, "skipSentry"))

conflict(resource, reason, options) ==
    createErrorData("conflict",
        resource \o " conflict: " \o orElse(reason, "resource already exists"),
        factoryPublic("Resource Conflict",
                      suffixed("A conflict occurred with " \o resource, ": ", reason),
                      options),
        factoryInternalWith(IF TruthyStr(reason)
                            THEN [resource |-> resource, reason |-> reason[1]]
                            ELSE [resource |-> resource], options),
        optionField(options, "httpStatus"), optionField(options, "skipSentry"))

external(service, message, options) ==
    createErrorData("external",
        "external service error: " \o service \o " - " \o message,
        factoryPublic("External Service Error",
                      "An error occurred while communicating with " \o service, options),
        factoryInternalWith([service |-> service], options),
        optionField(options, "httpStatus"), optionField(options, "skipSentry"))

timeout(operation, duration, options) ==
    createErrorData("timeout",
        suffixed("timeout: " \o operation, " exceeded ", duration),
        factoryPublic("Request Timeout",
                      suffixed("The operation '" \o operation \o "' timed out", " after ",
                               duration),
                      options),
        factoryInternalWith(IF TruthyStr(duration)
                            THEN [operation |-> operation, duration |-> duration[1]]
                            ELSE [operation |-> operation], options),
        optionField(options, "httpStatus"), optionField(options, "skipSentry"))

\* The eleven factories by name. first is the first positional argument,
\* second the one after it (the only one of unauthorized, the message of
\* external); the factories with one argument ignore second.
FactoryNames ==
    {"notFound", "validation", "database", "internal", "forbidden", "unauthorized",
     "badInput", "conflict", "external", "timeout", "busy"}

factories(name, first, second, options) ==
    CASE name = "notFound" -> notFound(first, second, options)
      [] name = "validation" -> validation(first, second, options)
      [] name = "database" -> database(first, options)
      [] name = "internal" -> internal(first, options)
      [] name = "forbidden" -> forbidden(first, second, options)
      [] name = "unauthorized" -> unauthorized(second, options)
      [] name = "badInput" -> badInput(first, options)
      [] name = "conflict" -> conflict(first, second, options)
      [] name = "external" -> external(first, orElse(second, ""), options)
      [] name = "timeout" -> timeout(first, second, options)
      [] name = "busy" -> busy(first, options)

(***************************************************************************)
(* error-factory.ts                                                        *)
(***************************************************************************)
CreateErrorDataOptions(public, internalData, httpStatus, skipSentry) ==
    [public |-> public, internal |-> internalData, httpStatus |-> httpStatus,
     skipSentry |-> skipSentry]

\* Mutant of mergeContext: the bound context wins over the per-call one.
mergeContext_boundWins(context, optionsContext) ==
    IF optionsContext = None THEN context
    ELSE MapAssign(optionsContext[1], context)

mergeContext(context, optionsContext) ==
    IF optionsContext = None THEN context
    ELSE MapAssign(context, optionsContext[1])

\* What every ErrorFactory method hands on: { ...options, internal: mergedInternal }.
boundOptions(context, options) ==
    LET given == optionField(options, "internal")
        mergedInternal ==
            IF given # None
            THEN [given[1] EXCEPT !.context = Some(mergeContext(context, given[1].context))]
            ELSE InternalData(None, Some(context), None)
    IN Some(CreateErrorDataOptions(optionField(options, "public"), Some(mergedInternal),
                                   optionField(options, "httpStatus"),
                                   optionField(options, "skipSentry")))

\* new ErrorFactory(context).<name>(first, second, options)
ErrorFactory(context, name, first, second, options) ==
    factories(name, first, second, boundOptions(context, options))

EmailIssue == [field |-> "email", message |-> "Invalid email"]

PublicSet ==
    {None,
     Some(PublicData(None, Some("Not Found"), Some("no such user"), Some("/users/42"),
                     None, None)),
     Some(PublicData(Some("user-not-found"), None, Some(""), None, None, None)),
     Some(PublicData(Some("https://api.example.com/errors/user-not-found"),
                     None, None, None, None, None)),
     Some(PublicData(Some(""), None, None, None,
                     Some([userId |-> "42"]), Some(<<EmailIssue>>))),
     Some(PublicData(None, Some("Oops"), None, None, Some(EmptyMap), Some(<<>>)))}

DbCause == [name |-> "Error", message |-> "ECONNREFUSED", stack |-> "Error: ECONNREFUSED at db.ts"]

InternalSet ==
    {None,
     Some(InternalData(Some(DbCause), Some([query |-> "SELECT 1"]), Some([team |-> "core"]))),
     Some(InternalData(None, Some([token |-> "hunter2"]), None))}

Messages == {"boom", "secret"}

\* Records whose status and eligibility are asked for.
StatusTypes == {"internal", "busy", "not-found", "rate_limited", "teapot"}

StatusRecords ==
    {createErrorData(t, "boom", None, None, h, None) :
        t \in StatusTypes, h \in {None, Some(0), Some(404), Some(503)}}

EligibilityRecords ==
    {createErrorData(t, "boom", None, None, h, k) :
        t \in {"internal", "busy", "rate_limited"},
        h \in {None, Some(429), Some(503)},
        k \in Opt(BOOLEAN)}
    \cup {busy("maintenance", None), internal("boom", None)}

\* Categories and messages createErrorData is called with: a built-in
\* category, one that registerErrorType may have registered, one that is
\* never registered; an empty and a non-empty message.
CreateTypes == {"internal", "rate_limited", "teapot"}
CreateMessages == {"", "boom"}

\* Records that are turned into responses.
ResponseRecords ==
    {createErrorData(t, "secret", p, Some(InternalData(Some(DbCause),
                         Some([query |-> "SELECT 1"]), Some([team |-> "core"]))), h, None) :
        t \in {"internal", "not-found"}, p \in PublicSet, h \in {None, Some(503)}}

BaseUrls == {None, Some(""), Some("https://api.example.com/errors")}

HttpResponseOptions ==
    {None} \cup {Some([includeErrorDetails |-> b]) : b \in Opt(BOOLEAN)}

\* Inputs of the factories: positional arguments, per-call options and the
\* contexts an ErrorFactory is bound to.
FactorySeconds == {None, Some(""), Some("42")}

FactoryPublics ==
    {None,
     Some(PublicData(None, Some("Custom title"), None, None, None, None)),
     Some(PublicData(Some("user-not-found"), None, Some("custom detail"), None,
                     Some([userId |-> "42"]), Some(<<EmailIssue>>)))}

FactoryInternals ==
    {None,
     Some(InternalData(None, None, None)),
     Some(InternalData(Some(DbCause), Some([requestId |-> "r2"]), Some([team |-> "core"]))),
     Some(InternalData(None, Some([resource |-> "override", reason |-> "why"]), None))}

FactoryOptions ==
    {None}
    \cup {Some(CreateErrorDataOptions(p, i, h, k)) :
            p \in FactoryPublics, i \in FactoryInternals,
            h \in {None, Some(418)}, k \in {None, Some(TRUE)}}

BoundContexts ==
    {[requestId |-> "r1", url |-> "/users/42"], [resource |-> "bound"]}

FactoryMappings == {[busy |-> 429], [conflict |-> 410]}

FactoryResponseRecords ==
    {notFound("user", Some("42"), None), notFound("user", None, None),
     conflict("user", Some("email taken"), None)}

(***************************************************************************)
(* error-helpers.ts (CustomError) and the values a handler can throw       *)
(*                                                                         *)
(* A thrown value is one record for the three shapes the pipe tells apart: *)
(* kind is the class (instanceof), statusCode an optional JavaScript value *)
(* with its typeof, issues the ZodError issue list.                        *)
(***************************************************************************)
JsNumber(n) == [t |-> "number", v |-> n]
\* A statusCode that is a string: only its typeof is looked at.
JsString == [t |-> "string", v |-> 0]

Thrown(kind, message, issues, errorType, statusCode, context, skipSentry) ==
    [kind |-> kind, message |-> message, stack |-> kind \o ": " \o message \o " at handler",
     issues |-> issues, errorType |-> errorType, statusCode |-> statusCode,
     context |-> context, skipSentry |-> skipSentry]

isCustomError(error) == error.kind = "CustomError"

\* this.statusCode ?? DEFAULT_HTTP_STATUS_MAP[this.errorType]: undefined for
\* a category outside the enum.
getStatusCode(error) ==
    IF error.statusCode # None THEN Some(error.statusCode[1].v)
    ELSE IF error.errorType \in DOMAIN DEFAULT_HTTP_STATUS_MAP
         THEN Some(DEFAULT_HTTP_STATUS_MAP[error.errorType])
         ELSE None

errorName(error) ==
    IF isCustomError(error) THEN "CustomError[" \o error.errorType \o "]" ELSE error.kind

(***************************************************************************)
(* error-data.ts: toLogObject                                              *)
(***************************************************************************)
toLogObject(error) ==
    LET internalField(f) == IF error.internal = None THEN None ELSE error.internal[1][f]
        cause == internalField("cause")
    IN [type |-> error.type,
        message |-> error.message,
        httpStatus |-> getHttpStatus(error),
        public |-> error.public,
        error |-> IF cause = None THEN None
                  ELSE Some([name |-> errorName(cause[1]), message |-> cause[1].message,
                             stack |-> cause[1].stack]),
        context |-> internalField("context"),
        tags |-> internalField("tags")]

(***************************************************************************)
(* integrations/fastify/error-pipe.ts                                      *)
(***************************************************************************)
isZodValidationError(error) == error.kind = "ZodError"

RECURSIVE join(_, _)
join(path, sep) ==
    IF Len(path) = 0 THEN ""
    ELSE IF Len(path) = 1 THEN path[1]
    ELSE path[1] \o sep \o join(Tail(path), sep)

\* Mutant of parseZodErrors: an empty path is joined like any other.
parseZodErrors_noRoot(zodError) ==
    [i \in 1..Len(zodError.issues) |->
        LET issue == zodError.issues[i] IN
        [field |-> join(issue.path, "."),
         message |-> issue.message,
         meta |-> [code |-> issue.code]]]

\* Every issue property but path and message goes to meta.
parseZodErrors(zodError) ==
    [i \in 1..Len(zodError.issues) |->
        LET issue == zodError.issues[i] IN
        [field |-> IF Len(issue.path) > 0 THEN join(issue.path, ".") ELSE "root",
         message |-> issue.message,
         meta |-> [code |-> issue.code]]]

REDACTED == "[REDACTED]"

sanitizeHeaders(headers, redactList) ==
    LET listed == {redactList[i] : i \in 1..Len(redactList)}
        present(h) == h \in DOMAIN headers /\ headers[h] # ""
    IN [h \in DOMAIN headers |->
           IF h \in listed /\ present(h) THEN REDACTED ELSE headers[h]]

DefaultRedactHeaders == <<"authorization", "cookie", "x-api-key", "x-api-token">>

\* createErrorPipe: the options with their defaults.
pipeOption(options, f, default) ==
    IF options = None \/ options[1][f] = None THEN default ELSE options[1][f][1]

shouldIncludeDetails(options) ==
    \/ pipeOption(options, "includeErrorDetails", FALSE)
    \/ optionField(options, "environment") = Some("dev")
    \/ optionField(options, "environment") = Some("local")

\* Mutant of classify: a numeric statusCode is looked for before the classes.
classify_statusCodeFirst(error) ==
    IF error.statusCode # None /\ error.statusCode[1].t = "number" THEN
        [statusCode |-> Some(error.statusCode[1].v),
         errorType |-> IF error.statusCode[1].v >= 500 THEN "internal" ELSE "bad-input",
         context |-> EmptyMap, skipSentry |-> FALSE, validationErrors |-> None]
    ELSE IF isZodValidationError(error) THEN
        [statusCode |-> Some(422), errorType |-> "validation", context |-> EmptyMap,
         skipSentry |-> TRUE, validationErrors |-> Some(parseZodErrors(error))]
    ELSE IF isCustomError(error) THEN
        [statusCode |-> getStatusCode(error), errorType |-> error.errorType,
         context |-> IF error.context = None THEN EmptyMap ELSE error.context[1],
         skipSentry |-> IF error.skipSentry = None THEN FALSE ELSE error.skipSentry[1],
         validationErrors |-> None]
    ELSE
        [statusCode |-> Some(500), errorType |-> "internal", context |-> EmptyMap,
         skipSentry |-> FALSE, validationErrors |-> None]

\* Mutant of classify: a ZodError is not marked skipSentry.
classify_zodReported(error) ==
    IF isZodValidationError(error) THEN
        [statusCode |-> Some(422), errorType |-> "validation", context |-> EmptyMap,
         skipSentry |-> FALSE, validationErrors |-> Some(parseZodErrors(error))]
    ELSE IF isCustomError(error) THEN
        [statusCode |-> getStatusCode(error), errorType |-> error.errorType,
         context |-> IF error.context = None THEN EmptyMap ELSE error.context[1],
         skipSentry |-> IF error.skipSentry = None THEN FALSE ELSE error.skipSentry[1],
         validationErrors |-> None]
    ELSE IF error.statusCode # None /\ error.statusCode[1].t = "number" THEN
        [statusCode |-> Some(error.statusCode[1].v),
         errorType |-> IF error.statusCode[1].v >= 500 THEN "internal" ELSE "bad-input",
         context |-> EmptyMap, skipSentry |-> FALSE, validationErrors |-> None]
    ELSE
        [statusCode |-> Some(500), errorType |-> "internal", context |-> EmptyMap,
         skipSentry |-> FALSE, validationErrors |-> None]

\* Step 1 of errorPipe: statusCode, errorType, context, skipSentry and
\* validationErrors, by the first branch that matches.
classify(error) ==
    IF isZodValidationError(error) THEN
        [statusCode |-> Some(422), errorType |-> "validation", context |-> EmptyMap,
         skipSentry |-> TRUE, validationErrors |-> Some(parseZodErrors(error))]
    ELSE IF isCustomError(error) THEN
        [statusCode |-> getStatusCode(error), errorType |-> error.errorType,
         context |-> IF error.context = None THEN EmptyMap ELSE error.context[1],
         skipSentry |-> IF error.skipSentry = None THEN FALSE ELSE error.skipSentry[1],
         validationErrors |-> None]
    ELSE IF error.statusCode # None /\ error.statusCode[1].t = "number" THEN
        [statusCode |-> Some(error.statusCode[1].v),
         errorType |-> IF error.statusCode[1].v >= 500 THEN "internal" ELSE "bad-input",
         context |-> EmptyMap, skipSentry |-> FALSE, validationErrors |-> None]
    ELSE
        [statusCode |-> Some(500), errorType |-> "internal", context |-> EmptyMap,
         skipSentry |-> FALSE, validationErrors |-> None]

buildRequestContext(request, options) ==
    LET base == [url |-> request.url, method |-> request.method,
                 params |-> request.params, query |-> request.query,
                 headers |-> sanitizeHeaders(request.headers,
                                 pipeOption(options, "redactHeaders", DefaultRedactHeaders)),
                 ip |-> request.ip,
                 userAgent |-> IF "user-agent" \in DOMAIN request.headers
                               THEN Some(request.headers["user-agent"]) ELSE None]
    IN IF pipeOption(options, "captureRequestBody", FALSE)
       THEN MapSet(base, "body", request.body)
       ELSE base

pipeErrorData(error, request, options) ==
    LET c == classify(error) IN
    createErrorData(c.errorType, error.message,
        IF c.validationErrors # None
        THEN Some(PublicData(None, Some("Validation Error"),
                             Some("Request validation failed"), None, None,
                             c.validationErrors))
        ELSE None,
        Some(InternalData(Some(error),
                          Some(MapAssign(c.context, buildRequestContext(request, options))),
                          None)),
        c.statusCode, Some(c.skipSentry))

(***************************************************************************)
(* integrations/sentry/plugin.ts: sendToSentry, as the pipe calls it       *)
(* (level "error", logObj.err an Error). env says whether a Sentry client  *)
(* exists and whether the Sentry SDK throws.                               *)
(***************************************************************************)
\* try { return Sentry.getClient() !== undefined } catch { return false }
isSentryInitialized(env) ==
    IF env.getClientThrows THEN FALSE ELSE env.sentryInitialized

PINO_TO_SENTRY_LEVEL ==
    [trace |-> "debug", debug |-> "debug", info |-> "info", warn |-> "warning",
     error |-> "error", fatal |-> "fatal"]

\* The capture call the body of sendToSentry makes inside Sentry.withScope.
sentryCapture(level, logObj, message, options) ==
    LET tags == IF options = None THEN EmptyMap ELSE options[1].tags
        isError == level \in {"error", "fatal"} \/ logObj.err # None
                      \/ logObj.error # None
        error == IF logObj.err # None THEN logObj.err ELSE logObj.error
        captureMessage == [ev |-> "captureMessage", message |-> message,
                           level |-> PINO_TO_SENTRY_LEVEL[level], tags |-> tags]
    IN IF isError /\ error # None /\ error[1].kind # "object" THEN
           [ev |-> "captureException", err |-> error[1], tags |-> tags]
       ELSE IF isError /\ error # None THEN
           [ev |-> "captureException",
            err |-> [error[1] EXCEPT !.kind = "Error", !.message = message],
            tags |-> tags]
       ELSE captureMessage

\* Mutant of sendToSentry: the body is not wrapped in try/catch.
sendToSentry_noCatch(env, level, logObj, message, options) ==
    IF ~isSentryInitialized(env) THEN [events |-> <<>>, threw |-> None]
    ELSE IF env.sentryThrows
         THEN [events |-> <<>>, threw |-> Some("SentryError")]
         ELSE [events |-> <<sentryCapture(level, logObj, message, options)>>,
               threw |-> None]

\* What a call does and whether it throws to its caller: nothing when no
\* client exists; an error of the Sentry SDK is caught and console.warn'ed.
sendToSentry(env, level, logObj, message, options) ==
    IF ~isSentryInitialized(env) THEN [events |-> <<>>, threw |-> None]
    ELSE IF env.sentryThrows
         THEN [events |-> <<[ev |-> "console.warn"]>>, threw |-> None]
         ELSE [events |-> <<sentryCapture(level, logObj, message, options)>>,
               threw |-> None]

\* errorPipe: what one invocation does, in order, and whether it rejects
\* before the reply is sent. A throwing logger and statusCode.toString() on
\* an undefined statusCode both leave the handler before reply.code().send().
errorPipe(options, error, request, env) ==
    LET c == classify(error)
        errorData == pipeErrorData(error, request, options)
        isServerError == c.statusCode # None /\ c.statusCode[1] >= 500
        logObject == [log |-> toLogObject(errorData), stack |-> error.stack]
        logEvents == IF isServerError
                     THEN <<[ev |-> "logger.error", obj |-> logObject]>> ELSE <<>>
        logThrew == isServerError /\ env.loggerThrows
        report == shouldSendToSentry(errorData) /\ ~c.skipSentry
        tagsThrew == report /\ c.statusCode = None
        sentry ==
            IF report /\ ~tagsThrew
            THEN sendToSentry(env, "error", [err |-> Some(error), error |-> None],
                     error.message,
                     Some([captureContext |-> TRUE,
                           tags |-> [error_type |-> c.errorType,
                                     status_code |-> c.statusCode[1],
                                     path |-> request.url, method |-> request.method,
                                     request_id |-> request.id]]))
            ELSE [events |-> <<>>, threw |-> None]
        sentryEvents == sentry.events
        response == toHttpResponse(errorData,
                        Some([includeErrorDetails |-> Some(shouldIncludeDetails(options))]))
        replyEvents == <<[ev |-> "reply", code |-> response.statusCode,
                          body |-> response.body]>>
    IN IF logThrew THEN
           [classified |-> c, errorData |-> errorData, events |-> <<>>,
            sendToSentryCalled |-> FALSE, threw |-> Some("logger.error")]
       ELSE IF tagsThrew THEN
           [classified |-> c, errorData |-> errorData, events |-> logEvents,
            sendToSentryCalled |-> FALSE, threw |-> Some("TypeError")]
       ELSE IF sentry.threw # None THEN
           [classified |-> c, errorData |-> errorData,
            events |-> logEvents \o sentryEvents,
            sendToSentryCalled |-> TRUE, threw |-> sentry.threw]
       ELSE
           [classified |-> c, errorData |-> errorData,
            events |-> logEvents \o sentryEvents \o replyEvents,
            sendToSentryCalled |-> report, threw |-> None]

(***************************************************************************)
(* Inputs of the error pipe                                                *)
(***************************************************************************)
Issue(path, message) == [path |-> path, message |-> message, code |-> "invalid_type"]

ZodErrors ==
    {Thrown("ZodError", "Validation failed", is, "", sc, None, None) :
        is \in {<<>>,
                <<Issue(<<"email">>, "Invalid email"), Issue(<<>>, "bad root")>>,
                <<Issue(<<"user", "address", "zip">>, "Required")>>},
        sc \in {None}}
    \cup {Thrown("ZodError", "Validation failed", <<Issue(<<"email">>, "Invalid email")>>,
                 "", Some(JsNumber(500)), None, None)}

CustomErrors ==
    {Thrown("CustomError", "secret", <<>>, t, sc, cx[1], cx[2]) :
        t \in {"conflict", "busy", "rate_limited"},
        sc \in {None, Some(JsNumber(418))},
        cx \in {<<None, None>>,
                <<Some([userId |-> "42", url |-> "/from-handler"]), None>>,
                <<Some([userId |-> "42"]), Some(TRUE)>>}}

PlainErrors ==
    {Thrown("Error", "secret", <<>>, "", sc, None, None) :
        sc \in {None, Some(JsNumber(404)), Some(JsNumber(499)), Some(JsNumber(500)),
                Some(JsNumber(503)), Some(JsString)}}

PipeErrors == ZodErrors \cup CustomErrors \cup PlainErrors

Requests ==
    {[id |-> "req-1", url |-> "/users/42", method |-> "GET", params |-> [id |-> "42"],
      query |-> EmptyMap, ip |-> "10.0.0.1", body |-> "",
      headers |-> [authorization |-> "Bearer abc"] ],
     [id |-> "req-2", url |-> "/users", method |-> "POST", params |-> EmptyMap,
      query |-> [dry |-> "1"], ip |-> "10.0.0.2", body |-> "{password}",
      headers |-> ("user-agent" :> "curl/8" @@ "x-trace" :> "t-1")]}

PipeOptions(includeErrorDetails, environment, redactHeaders, captureRequestBody) ==
    [includeErrorDetails |-> includeErrorDetails, environment |-> environment,
     redactHeaders |-> redactHeaders, captureRequestBody |-> captureRequestBody]

PipeOptionsSet ==
    {None}
    \cup {Some(PipeOptions(d, e, None, None)) :
            d \in Opt(BOOLEAN), e \in Opt({"production", "dev"})}
    \cup {Some(PipeOptions(None, Some("local"), None, None))}
    \cup {Some(PipeOptions(None, None, Some(<<"x-trace">>), Some(TRUE)))}
    \cup {Some(PipeOptions(None, None, Some(<<"cookie", "user-agent">>), None))}

PipeEnvs ==
    {[loggerThrows |-> l, sentryInitialized |-> s[1], sentryThrows |-> s[2],
      getClientThrows |-> FALSE] :
        l \in BOOLEAN, s \in {<<FALSE, FALSE>>, <<TRUE, FALSE>>, <<TRUE, TRUE>>}}

\* Inputs of sendToSentry: levels, log objects with and without an error,
\* and every state of the Sentry SDK.
SentryLevels == {"info", "error"}

LogObjects ==
    {[err |-> e, error |-> None] :
        e \in {None, Some(Thrown("Error", "secret", <<>>, "", None, None, None)),
               Some(Thrown("object", "db down", <<>>, "", None, None, None))}}
    \cup {[err |-> None,
           error |-> Some(Thrown("Error", "secret", <<>>, "", None, None, None))]}

SentrySendOptions == {None, Some([captureContext |-> TRUE, tags |-> [team |-> "core"]])}

SentryEnvs ==
    {[loggerThrows |-> FALSE, sentryInitialized |-> i, sentryThrows |-> t,
      getClientThrows |-> g] : i \in BOOLEAN, t \in BOOLEAN, g \in BOOLEAN}

SentryPipeErrors ==
    {Thrown("Error", "secret", <<>>, "", None, None, None),
     Thrown("Error", "secret", <<>>, "", Some(JsNumber(404)), None, None),
     Thrown("CustomError", "secret", <<>>, "busy", None, None, None)}

\* Rule lists a caller builds and keeps, and the statuses asked about.
AliasRuleLists ==
    {<<RangeRule(500, 599)>>, <<NumberRule(429), ExcludeRule(500, 599, Some(<<503>>))>>}
AliasProbes == {404, 450, 503}

\* Rule lists and status values the pipe is explored under.
PipeRuleLists == {<<>>, DefaultRules, <<ExcludeRule(400, 499, None), RangeRule(500, 599)>>}
PipeMappings == {EmptyMap, [busy |-> 429]}

(***************************************************************************)
(* integrations/process-error-handler.ts: setupProcessErrorHandlers        *)
(*                                                                         *)
(* Every delivered event runs its listener: a synchronous part up to the   *)
(* first await, then one continuation per awaited promise. A task is the   *)
(* async function of one delivery; tasks interleave at their awaits.       *)
(***************************************************************************)
MaxEvents == 2

\* The options that decide about exit; every handle* option is at its
\* default (true), onUncaughtException and onUnhandledRejection are not given.
ProcessErrorHandlerOptions(exitOnUncaughtException, exitOnUnhandledRejection, onBeforeExit) ==
    [exitOnUncaughtException |-> exitOnUncaughtException,
     exitOnUnhandledRejection |-> exitOnUnhandledRejection,
     onBeforeExit |-> onBeforeExit]

ProcessOptions ==
    {ProcessErrorHandlerOptions(x, r, h) : x \in BOOLEAN, r \in BOOLEAN, h \in BOOLEAN}

Faults == {"uncaughtException", "unhandledRejection"}
Signals == {"SIGTERM", "SIGINT"}

\* The exit option of a fault, and the code a listener exits with.
exitOn(options, kind) ==
    IF kind = "uncaughtException" THEN options.exitOnUncaughtException
    ELSE options.exitOnUnhandledRejection

exitCode(kind) == IF kind \in Signals THEN 0 ELSE 1

\* A task: the listener's kind, where its async function waits, and what it
\* has done: logged its entry, the state of its Sentry.flush and of its
\* onBeforeExit call.
Task(kind, pc, flush, hook) ==
    [kind |-> kind, pc |-> pc, logged |-> TRUE, flush |-> flush, hook |-> hook]

\* process.exit(code), called by task t.
processExit(p, t, code) ==
    [p EXCEPT !.exit = Some([code |-> code, by |-> t])]

\* Mutant of exitProcess: the hook is started and not awaited.
exitProcess_hookNotAwaited(p, i, code) ==
    IF p.options.onBeforeExit
    THEN processExit([p EXCEPT !.tasks[i].hook = "pending",
                               !.hookStarts = p.hookStarts + 1],
                     [p.tasks[i] EXCEPT !.hook = "pending"], code)
    ELSE processExit([p EXCEPT !.tasks[i].pc = "done"],
                     [p.tasks[i] EXCEPT !.pc = "done"], code)

\* exitProcess(code), called by task i: with a hook, onBeforeExit() is
\* called and awaited; without one, process.exit(code) at once.
exitProcess(p, i, code) ==
    IF p.options.onBeforeExit
    THEN [p EXCEPT !.tasks[i].pc = "hook", !.tasks[i].hook = "pending",
                   !.hookStarts = p.hookStarts + 1]
    ELSE processExit([p EXCEPT !.tasks[i].pc = "done"],
                     [p.tasks[i] EXCEPT !.pc = "done"], code)

\* What task i does after its flush (or when there is none to wait for):
\* a signal exits, a fault exits when its option says so.
afterFlush(p, i) ==
    LET kind == p.tasks[i].kind IN
    IF kind \in Signals \/ exitOn(p.options, kind)
    THEN exitProcess(p, i, exitCode(kind))
    ELSE [p EXCEPT !.tasks[i].pc = "done"]

(***************************************************************************)
(* error-helpers.ts: the stack of a CustomError instance                   *)
(*                                                                         *)
(* A stack is the sequence of its sections: the first is the stack the     *)
(* Error constructor captured (or the value assigned through the setter),  *)
(* each later one a "\nCaused by: <stack>" suffix.                          *)
(***************************************************************************)
MaxWraps == 3

OwnStack == "CustomError[internal]: boom at handler.ts"

WrapCauses ==
    {[message |-> "ECONNREFUSED", stack |-> Some("Error: ECONNREFUSED at db.ts")],
     [message |-> "ETIMEDOUT", stack |-> Some("Error: ETIMEDOUT at http.ts")],
     [message |-> "no stack", stack |-> None]}

AssignedStacks == {"Error: replaced"}

\* this.cause?.stack, as a condition
causeStackTruthy(cause) ==
    /\ cause # None
    /\ TruthyStr(cause[1].stack)

\* new CustomError(message, errorType, { cause })
newCustomError(cause) ==
    [constructed |-> TRUE, cause |-> cause, _stackAccessed |-> FALSE,
     superStack |-> <<OwnStack>>, wraps |-> 0, assigned |-> FALSE, ret |-> None]

\* get stack(): the instance after the read, its ret the value returned
stackGet(this) ==
    LET after == IF ~this._stackAccessed /\ causeStackTruthy(this.cause)
                 THEN [this EXCEPT !._stackAccessed = TRUE,
                                   !.superStack = Append(this.superStack,
                                                         this.cause[1].stack[1])]
                 ELSE this
    IN [after EXCEPT !.ret = Some([op |-> "stack", value |-> after.superStack])]

\* set stack(value)
stackSet(this, value) ==
    [this EXCEPT !._stackAccessed = TRUE, !.superStack = <<value>>,
                 !.assigned = TRUE, !.ret = None]

\* wrap(error): returns this
wrap(this, error) ==
    [this EXCEPT !.cause = Some(error), !._stackAccessed = FALSE,
                 !.wraps = this.wraps + 1,
                 !.ret = Some([op |-> "wrap", value |-> "this"])]

(***************************************************************************)
(* core/logger.ts: the reference-counted default transport                 *)
(*                                                                         *)
(* cachedDefaultTransport holds the number of the transport created, or    *)
(* nothing. obtained and released count, for the transport last created,   *)
(* the createLogger calls that got it and the release calls since its      *)
(* creation; ended records those two counts each time end() is called.     *)
(***************************************************************************)
MaxLoggerCalls == 6

\* getDefaultTransport()
getDefaultTransport(t) ==
    LET fresh == t.cachedDefaultTransport = None
        made == IF fresh
                THEN [t EXCEPT !.cachedDefaultTransport = Some(t.created + 1),
                               !.created = t.created + 1,
                               !.obtained = 0, !.released = 0]
                ELSE t
    IN [made EXCEPT !.transportRefCount = made.transportRefCount + 1,
                    !.obtained = made.obtained + 1]

\* releaseDefaultTransport()
releaseDefaultTransport(t) ==
    LET n == t.transportRefCount - 1
        r == IF t.cachedDefaultTransport # None THEN t.released + 1 ELSE t.released
    IN IF n <= 0 /\ t.cachedDefaultTransport # None
       THEN [t EXCEPT !.cachedDefaultTransport = None, !.transportRefCount = 0,
                      !.released = r,
                      !.ended = Append(t.ended, [transport |-> t.cachedDefaultTransport[1],
                                                 obtained |-> t.obtained,
                                                 released |-> r])]
       ELSE [t EXCEPT !.transportRefCount = n, !.released = r]

\* createLogger(cfg, transport, addSource): transport ?? getDefaultTransport()
createLogger(t, customTransport) ==
    IF customTransport THEN t ELSE getDefaultTransport(t)

(***************************************************************************)
(* The state machine                                                       *)
(***************************************************************************)
Idle == [op |-> "idle"]

\* No handler is installed, no CustomError is constructed, no transport is
\* created.
ProcInit ==
    [installed |-> FALSE, options |-> ProcessErrorHandlerOptions(FALSE, FALSE, FALSE),
     sentry |-> FALSE, tasks |-> <<>>, hookStarts |-> 0, exit |-> None]
CustomInit ==
    [constructed |-> FALSE, cause |-> None, _stackAccessed |-> FALSE,
     superStack |-> <<>>, wraps |-> 0, assigned |-> FALSE, ret |-> None]
TransportInit ==
    [cachedDefaultTransport |-> None, transportRefCount |-> 0, created |-> 0,
     obtained |-> 0, released |-> 0, ended |-> <<>>, calls |-> 0]

Init ==
    /\ sentryStatusRules = DefaultRules
    /\ customStatusMap = EmptyMap
    /\ customErrorTypes = EmptyMap
    /\ enableSentry = FALSE
    /\ held = <<>>
    /\ call = Idle
    /\ proc = ProcInit
    /\ custom = CustomInit
    /\ transport = TransportInit

\* The configuration as one value, recorded by the calls that replace it.
Config == [rules |-> sentryStatusRules, statusMap |-> customStatusMap,
           errorTypes |-> customErrorTypes]

ConfigUnchanged ==
    UNCHANGED <<sentryStatusRules, customStatusMap, customErrorTypes, enableSentry, held, runtimeVars>>

\* The active list becomes a new array of other objects: what the caller
\* holds is no longer part of it.
Detached(list) == [i \in 1..Len(list) |-> [list[i] EXCEPT !.alias = 0]]

\* error-config.ts: setSentryStatusRules, called with an array literal the
\* caller does not keep.
SetSentryStatusRules(rules) ==
    /\ call = Idle
    /\ sentryStatusRules' = rules
    /\ held' = Detached(held)
    /\ call' = [op |-> "setSentryStatusRules", rules |-> rules]
    /\ UNCHANGED <<customStatusMap, customErrorTypes, enableSentry, runtimeVars>>

RegisterErrorType(errorType, httpStatus) ==
    /\ call = Idle
    /\ customErrorTypes' = MapSet(customErrorTypes, errorType, httpStatus)
    /\ call' = [op |-> "registerErrorType", errorType |-> errorType,
                httpStatus |-> httpStatus]
    /\ UNCHANGED <<sentryStatusRules, customStatusMap, enableSentry, held, runtimeVars>>

SetCustomStatusMap(mapping) ==
    /\ call = Idle
    /\ customStatusMap' = MapAssign(customStatusMap, mapping)
    /\ call' = [op |-> "setCustomStatusMap", mapping |-> mapping]
    /\ UNCHANGED <<sentryStatusRules, customErrorTypes, enableSentry, held, runtimeVars>>

\* Mutant of Reset: the registered ad-hoc types survive.
Reset_keepsErrorTypes ==
    /\ call = Idle
    /\ customStatusMap' = EmptyMap
    /\ sentryStatusRules' = DefaultRules
    /\ held' = Detached(held)
    /\ call' = [op |-> "reset", before |-> Config]
    /\ UNCHANGED <<customErrorTypes, enableSentry, runtimeVars>>

Reset ==
    /\ call = Idle
    /\ customStatusMap' = EmptyMap
    /\ customErrorTypes' = EmptyMap
    /\ sentryStatusRules' = DefaultRules
    /\ held' = Detached(held)
    /\ call' = [op |-> "reset", before |-> Config]
    /\ UNCHANGED <<enableSentry, runtimeVars>>

ConfigShouldSendToSentry(statusCode) ==
    /\ call = Idle
    /\ call' = [op |-> "errorConfig.shouldSendToSentry", statusCode |-> statusCode,
                ret |-> ErrorConfig_shouldSendToSentry(sentryStatusRules, statusCode)]
    /\ ConfigUnchanged

GetHttpStatus(error) ==
    /\ call = Idle
    /\ call' = [op |-> "getHttpStatus", error |-> error, ret |-> getHttpStatus(error)]
    /\ ConfigUnchanged

ShouldSendToSentry(error) ==
    /\ call = Idle
    /\ call' = [op |-> "shouldSendToSentry", error |-> error,
                ret |-> shouldSendToSentry(error)]
    /\ ConfigUnchanged

ToErrorResponse(error, baseUrl) ==
    /\ call = Idle
    /\ call' = [op |-> "toErrorResponse", error |-> error, baseUrl |-> baseUrl,
                ret |-> toErrorResponse(error, baseUrl)]
    /\ ConfigUnchanged

ToHttpResponse(error, options) ==
    /\ call = Idle
    /\ call' = [op |-> "toHttpResponse", error |-> error, options |-> options,
                ret |-> toHttpResponse(error, options)]
    /\ ConfigUnchanged

\* The handler createErrorPipe(logger, options) returns, invoked by Fastify
\* with a thrown error and the request.
ErrorPipe(options, error, request, env) ==
    /\ call = Idle
    /\ call' = [op |-> "errorPipe", options |-> options, error |-> error,
                request |-> request, env |-> env,
                ret |-> errorPipe(options, error, request, env)]
    /\ ConfigUnchanged

\* error-data.ts: createErrorData(type, message, options). The function has
\* no throw statement: it returns a record for every input.
CreateErrorData(type, message, options) ==
    /\ call = Idle
    /\ call' = [op |-> "createErrorData", type |-> type, message |-> message,
                options |-> options, threw |-> None,
                ret |-> Some(createErrorData(type, message,
                                 optionField(options, "public"),
                                 optionField(options, "internal"),
                                 optionField(options, "httpStatus"),
                                 optionField(options, "skipSentry")))]
    /\ ConfigUnchanged

\* factories.ts: one of the eleven category factories is called.
Factory(name, first, second, options) ==
    /\ call = Idle
    /\ call' = [op |-> "factory", name |-> name, first |-> first, second |-> second,
                options |-> options, ret |-> factories(name, first, second, options)]
    /\ ConfigUnchanged

\* error-factory.ts: a method of an ErrorFactory bound to context is called.
BoundFactory(context, name, first, second, options) ==
    /\ call = Idle
    /\ call' = [op |-> "ErrorFactory", context |-> context, name |-> name,
                first |-> first, second |-> second, options |-> options,
                ret |-> ErrorFactory(context, name, first, second, options)]
    /\ ConfigUnchanged

\* A caller builds an array of rules.
NewRuleList(rules) ==
    /\ call = Idle
    /\ held' = [i \in 1..Len(rules) |-> [rule |-> rules[i], alias |-> 0]]
    /\ call' = [op |-> "newRuleList", before |-> sentryStatusRules]
    /\ UNCHANGED <<sentryStatusRules, customStatusMap, customErrorTypes, enableSentry, runtimeVars>>

\* error-config.ts: setSentryStatusRules(held). `[...rules]` is a new array
\* of the same elements: every rule object is now shared with the caller.
SetHeldRules ==
    /\ call = Idle
    /\ sentryStatusRules' = [i \in 1..Len(held) |-> held[i].rule]
    /\ held' = [i \in 1..Len(held) |-> [rule |-> held[i].rule, alias |-> i]]
    /\ call' = [op |-> "setSentryStatusRules",
                rules |-> [i \in 1..Len(held) |-> held[i].rule]]
    /\ UNCHANGED <<customStatusMap, customErrorTypes, enableSentry, runtimeVars>>

\* error-config.ts: getSentryStatusRules(). `[...this.sentryStatusRules]` is
\* a new array of the active rule objects; the caller keeps it.
GetSentryStatusRules ==
    /\ call = Idle
    /\ held' = [i \in 1..Len(sentryStatusRules) |->
                    [rule |-> sentryStatusRules[i], alias |-> i]]
    /\ call' = [op |-> "getSentryStatusRules", ret |-> sentryStatusRules]
    /\ UNCHANGED <<sentryStatusRules, customStatusMap, customErrorTypes, enableSentry, runtimeVars>>

\* The caller changes its array: held.push(rule), or held.pop().
MutateHeldList(rule) ==
    /\ call = Idle
    /\ held # <<>>
    /\ Len(held) <= MaxRules
    /\ held' = Append(held, [rule |-> rule, alias |-> 0])
    /\ call' = [op |-> "mutateList", before |-> sentryStatusRules]
    /\ UNCHANGED <<sentryStatusRules, customStatusMap, customErrorTypes, enableSentry, runtimeVars>>

PopHeldList ==
    /\ call = Idle
    /\ held # <<>>
    /\ held' = SubSeq(held, 1, Len(held) - 1)
    /\ call' = [op |-> "mutateList", before |-> sentryStatusRules]
    /\ UNCHANGED <<sentryStatusRules, customStatusMap, customErrorTypes, enableSentry, runtimeVars>>

\* The caller changes a rule object of its array: held[i][0] = lo for a
\* [min, max] pair, held[i].range[0] = lo for {range, exclude}. The object
\* is changed wherever it is an element.
MutateHeldRule(i, lo) ==
    /\ call = Idle
    /\ i \in 1..Len(held)
    /\ held[i].rule.kind \in {"range", "exclude"}
    /\ held[i].rule.min # lo
    /\ LET changed == [held[i].rule EXCEPT !.min = lo]
           a == held[i].alias
       IN /\ held' = [held EXCEPT ![i].rule = changed]
          /\ sentryStatusRules' =
                 IF a = 0 THEN sentryStatusRules
                 ELSE [sentryStatusRules EXCEPT ![a] = changed]
    /\ call' = [op |-> "mutateRule", before |-> sentryStatusRules]
    /\ UNCHANGED <<customStatusMap, customErrorTypes, enableSentry, runtimeVars>>

\* core/config.ts: logConfig.enableSentry = b (the application, or
\* initSentry, which sets it to true).
SetEnableSentry(b) ==
    /\ call = Idle
    /\ enableSentry' = b
    /\ call' = [op |-> "logConfig.enableSentry", value |-> b]
    /\ UNCHANGED <<sentryStatusRules, customStatusMap, customErrorTypes, held, runtimeVars>>

\* integrations/sentry/plugin.ts: sendToSentry(level, logObj, message, options).
SendToSentry(env, level, logObj, message, options) ==
    /\ call = Idle
    /\ call' = [op |-> "sendToSentry", env |-> env, level |-> level,
                logObj |-> logObj, message |-> message, options |-> options,
                ret |-> sendToSentry(env, level, logObj, message, options)]
    /\ ConfigUnchanged

\* setupProcessErrorHandlers(logger, options), in a process where a Sentry
\* client exists or not.
SetupProcessErrorHandlers(options, sentry) ==
    /\ ~proc.installed
    /\ proc' = [proc EXCEPT !.installed = TRUE, !.options = options,
                            !.sentry = sentry]
    /\ UNCHANGED <<libraryVars, custom, transport>>

\* An event is delivered: the listener logs its entry (fatal, error or
\* info) and runs its async function up to the first await. For a fault
\* with a Sentry client, Sentry.captureException is called outside any try:
\* if it throws, the .catch of the listener logs and exits when the exit
\* option is set. Sentry.flush is awaited by every listener but the one of
\* an unhandled rejection without its exit option.
Deliver(kind, captureThrows) ==
    /\ proc.installed
    /\ proc.exit = None
    /\ Len(proc.tasks) < MaxEvents
    /\ captureThrows => (kind \in Faults /\ proc.sentry)
    /\ LET i == Len(proc.tasks) + 1
           flushes == proc.sentry /\ (kind # "unhandledRejection"
                                       \/ proc.options.exitOnUnhandledRejection)
           started == [proc EXCEPT !.tasks = Append(proc.tasks,
                           Task(kind, IF flushes THEN "flush" ELSE "run",
                                IF flushes THEN "pending" ELSE "none", "none"))]
       IN proc' =
              IF captureThrows THEN
                  LET failed == [proc EXCEPT !.tasks = Append(proc.tasks,
                                     Task(kind, "failed", "none", "none"))]
                  IN IF exitOn(proc.options, kind)
                     THEN processExit(failed, failed.tasks[i], 1)
                     ELSE failed
              ELSE IF flushes THEN started
              ELSE afterFlush(started, i)
    /\ UNCHANGED <<libraryVars, custom, transport>>

\* The Sentry.flush of task i settles: it resolves or rejects (the
\* rejection is caught and logged), and the task goes on.
FlushSettles(i, outcome) ==
    /\ proc.exit = None
    /\ i \in 1..Len(proc.tasks)
    /\ proc.tasks[i].pc = "flush"
    /\ proc' = afterFlush([proc EXCEPT !.tasks[i].flush = outcome], i)
    /\ UNCHANGED <<libraryVars, custom, transport>>

\* Mutant of HookSettles: a hook that throws ends the task without exit.
HookSettles_throwSkipsExit(i, outcome) ==
    /\ proc.exit = None
    /\ i \in 1..Len(proc.tasks)
    /\ proc.tasks[i].pc = "hook"
    /\ LET p == [proc EXCEPT !.tasks[i].hook = outcome, !.tasks[i].pc = "done"]
       IN proc' = IF outcome = "threw" THEN p
                  ELSE processExit(p, p.tasks[i], exitCode(p.tasks[i].kind))
    /\ UNCHANGED <<libraryVars, custom, transport>>

\* The onBeforeExit call of task i settles: it returns or throws (the error
\* is caught and logged); process.exit follows.
HookSettles(i, outcome) ==
    /\ proc.exit = None
    /\ i \in 1..Len(proc.tasks)
    /\ proc.tasks[i].pc = "hook"
    /\ LET p == [proc EXCEPT !.tasks[i].hook = outcome, !.tasks[i].pc = "done"]
       IN proc' = processExit(p, p.tasks[i], exitCode(p.tasks[i].kind))
    /\ UNCHANGED <<libraryVars, custom, transport>>

\* The call returns; the caller may make the next one.
NewCustomError(cause) ==
    /\ ~custom.constructed
    /\ custom' = newCustomError(cause)
    /\ UNCHANGED <<libraryVars, proc, transport>>

Wrap(error) ==
    /\ custom.constructed
    /\ custom.wraps < MaxWraps
    /\ custom' = wrap(custom, error)
    /\ UNCHANGED <<libraryVars, proc, transport>>

ReadStack ==
    /\ custom.constructed
    /\ custom' = stackGet(custom)
    /\ UNCHANGED <<libraryVars, proc, transport>>

AssignStack(value) ==
    /\ custom.constructed
    /\ custom' = stackSet(custom, value)
    /\ UNCHANGED <<libraryVars, proc, transport>>

CreateLogger(customTransport) ==
    /\ transport.calls < MaxLoggerCalls
    /\ transport' = [createLogger(transport, customTransport)
                        EXCEPT !.calls = transport.calls + 1]
    /\ UNCHANGED <<libraryVars, proc, custom>>

ReleaseDefaultTransport ==
    /\ transport.calls < MaxLoggerCalls
    /\ transport' = [releaseDefaultTransport(transport)
                        EXCEPT !.calls = transport.calls + 1]
    /\ UNCHANGED <<libraryVars, proc, custom>>

Return ==
    /\ call # Idle
    /\ call' = Idle
    /\ ConfigUnchanged

Next ==
    \/ \E rules \in RuleLists : SetSentryStatusRules(rules)
    \/ \E t \in ConfigKeys, s \in ConfigStatuses : RegisterErrorType(t, s)
    \/ \E m \in Mappings : SetCustomStatusMap(m)
    \/ Reset
    \/ \E s \in ProbeStatuses : ConfigShouldSendToSentry(s)
    \/ \E e \in StatusRecords : GetHttpStatus(e)
    \/ \E e \in EligibilityRecords : ShouldSendToSentry(e)
    \/ \E t \in CreateTypes, m \in CreateMessages : CreateErrorData(t, m, None)
    \/ Return

Spec == Init /\ [][Next]_vars

\* The response derivations do not read the Sentry rules: they are explored
\* under every configuration of the two status maps.
NextResponse ==
    \/ \E t \in ConfigKeys, s \in ConfigStatuses : RegisterErrorType(t, s)
    \/ \E m \in Mappings : SetCustomStatusMap(m)
    \/ Reset
    \/ \E e \in ResponseRecords, b \in BaseUrls : ToErrorResponse(e, b)
    \/ \E e \in ResponseRecords, o \in HttpResponseOptions : ToHttpResponse(e, o)
    \/ Return

SpecResponse == Init /\ [][NextResponse]_vars

\* The error pipe under the configurations that change what it answers.
NextPipe ==
    \/ \E rules \in PipeRuleLists : SetSentryStatusRules(rules)
    \/ RegisterErrorType("rate_limited", 500)
    \/ \E m \in PipeMappings : SetCustomStatusMap(m)
    \/ Reset
    \/ \E o \in PipeOptionsSet, e \in PipeErrors, r \in Requests, v \in PipeEnvs :
           ErrorPipe(o, e, r, v)
    \/ Return

SpecPipe == Init /\ [][NextPipe]_vars

\* The factories, under the default status configuration and under
\* overrides of two categories.
NextFactory ==
    \/ \E m \in FactoryMappings : SetCustomStatusMap(m)
    \/ Reset
    \/ \E n \in FactoryNames, b \in FactorySeconds, o \in FactoryOptions :
           Factory(n, "user", b, o)
    \/ \E c \in BoundContexts, n \in FactoryNames, b \in FactorySeconds,
          o \in FactoryOptions :
           BoundFactory(c, n, "user", b, o)
    \/ \E e \in FactoryResponseRecords : ToHttpResponse(e, None)
    \/ Return

SpecFactory == Init /\ [][NextFactory]_vars

\* The rule list and the arrays a caller passes in and gets back.
NextAlias ==
    \/ \E rules \in AliasRuleLists : NewRuleList(rules)
    \/ SetHeldRules
    \/ GetSentryStatusRules
    \/ MutateHeldList(NumberRule(404))
    \/ PopHeldList
    \/ \E i \in 1..MaxRules : MutateHeldRule(i, 400)
    \/ \E rules \in AliasRuleLists : SetSentryStatusRules(rules)
    \/ Reset
    \/ \E s \in AliasProbes : ConfigShouldSendToSentry(s)
    \/ Return

SpecAlias == Init /\ [][NextAlias]_vars

\* Reporting: sendToSentry and the error pipe under every state of the
\* Sentry SDK and of logConfig.enableSentry.
NextSentry ==
    \/ \E b \in BOOLEAN : SetEnableSentry(b)
    \/ \E v \in SentryEnvs, l \in SentryLevels, o \in LogObjects, m \in {"", "boom"},
          t \in SentrySendOptions :
           SendToSentry(v, l, o, m, t)
    \/ \E e \in SentryPipeErrors, r \in Requests, v \in SentryEnvs :
           ErrorPipe(None, e, r, v)
    \/ Return

SpecSentry == Init /\ [][NextSentry]_vars

\* The process handlers under every exit policy, with and without an
\* onBeforeExit hook and a Sentry client, and every interleaving of up to
\* MaxEvents deliveries.
NextProcess ==
    \/ \E o \in ProcessOptions, s \in BOOLEAN : SetupProcessErrorHandlers(o, s)
    \/ \E k \in Faults \cup Signals, t \in BOOLEAN : Deliver(k, t)
    \/ \E i \in 1..MaxEvents, o \in {"resolved", "rejected"} : FlushSettles(i, o)
    \/ \E i \in 1..MaxEvents, o \in {"returned", "threw"} : HookSettles(i, o)

SpecProcess == Init /\ [][NextProcess]_vars

NextCustomError ==
    \/ \E c \in {None} \cup {Some(e) : e \in WrapCauses} : NewCustomError(c)
    \/ \E e \in WrapCauses : Wrap(e)
    \/ ReadStack
    \/ \E v \in AssignedStacks : AssignStack(v)

SpecCustomError == Init /\ [][NextCustomError]_vars

NextLogger ==
    \/ \E c \in BOOLEAN : CreateLogger(c)
    \/ ReleaseDefaultTransport

SpecLogger == Init /\ [][NextLogger]_vars

\* Shutdown by signal. Sentry.flush(timeout) settles within its timeout and
\* the claim is about a hook that returns or throws: both continuations
\* are eventually run by the event loop.
NextShutdown ==
    \/ \E o \in ProcessOptions, s \in BOOLEAN : SetupProcessErrorHandlers(o, s)
    \/ \E k \in Signals : Deliver(k, FALSE)
    \/ \E i \in 1..MaxEvents, o \in {"resolved", "rejected"} : FlushSettles(i, o)
    \/ \E i \in 1..MaxEvents, o \in {"returned", "threw"} : HookSettles(i, o)

SpecShutdown ==
    /\ Init
    /\ [][NextShutdown]_vars
    /\ WF_vars(\E i \in 1..MaxEvents, o \in {"resolved", "rejected"} : FlushSettles(i, o))
    /\ WF_vars(\E i \in 1..MaxEvents, o \in {"returned", "threw"} : HookSettles(i, o))
(***************************************************************************)
(* Claims                                                                  *)
(***************************************************************************)

\* C1: whatever setCustomStatusMap, registerErrorType and reset did before,
\* getHttpStatus(record) is record.httpStatus when it is set, else the
\* custom-status-map entry of record.type, else the status registered for
\* record.type, else the built-in default of record.type, else 500.
C1_StatusPrecedence ==
    call.op = "getHttpStatus" =>
        LET r == call.error IN
        call.ret =
            IF r.httpStatus # None THEN r.httpStatus[1]
            ELSE IF r.type \in DOMAIN customStatusMap THEN customStatusMap[r.type]
            ELSE IF r.type \in DOMAIN customErrorTypes THEN customErrorTypes[r.type]
            ELSE IF r.type \in ErrorType THEN DEFAULT_HTTP_STATUS_MAP[r.type]
            ELSE 500

\* A record without httpStatus whose category is in both maps, with
\* different statuses: the custom status map decides.
C1_Witness ==
    /\ call.op = "getHttpStatus"
    /\ call.error.httpStatus = None
    /\ call.error.type \in DOMAIN customStatusMap \cap DOMAIN customErrorTypes
    /\ customStatusMap[call.error.type] # customErrorTypes[call.error.type]
    /\ call.ret = customStatusMap[call.error.type]

\* C4: errorConfig.shouldSendToSentry(status) is true iff at least one
\* active rule matches (number: equal; [min,max]: inclusive; range with
\* exclude: inside and not excluded); false for every status under an empty
\* list, and true exactly for 500..599 under the default rules.
C4_RuleSemantics ==
    call.op = "errorConfig.shouldSendToSentry" =>
        LET s == call.statusCode
            excluded(rule) ==
                IF rule.exclude = None THEN {}
                ELSE {rule.exclude[1][i] : i \in 1..Len(rule.exclude[1])}
            matches(rule) ==
                \/ rule.kind = "number" /\ s = rule.code
                \/ rule.kind = "range" /\ rule.min <= s /\ s <= rule.max
                \/ rule.kind = "exclude" /\ rule.min <= s /\ s <= rule.max
                      /\ s \notin excluded(rule)
        IN /\ call.ret = (\E i \in 1..Len(sentryStatusRules) : matches(sentryStatusRules[i]))
           /\ sentryStatusRules = <<>> => call.ret = FALSE
           /\ sentryStatusRules = <<RangeRule(500, 599)>> =>
                  call.ret = (500 <= s /\ s <= 599)

\* The upper bound 599 of a range is asked for under a two-rule list whose
\* first rule does not match it: the second rule makes it eligible.
C4_Witness ==
    /\ call.op = "errorConfig.shouldSendToSentry"
    /\ call.statusCode = 599
    /\ Len(sentryStatusRules) = 2
    /\ sentryStatusRules[1] = NumberRule(429)
    /\ sentryStatusRules[2] = ExcludeRule(500, 599, Some(<<503>>))
    /\ call.ret = TRUE

\* C5: shouldSendToSentry(record) is false when record.skipSentry is true,
\* else errorConfig.shouldSendToSentry(getHttpStatus(record)); under the one
\* rule {range:[500,599], exclude:[503]} and no status overrides, busy(...)
\* is not eligible and internal(...) is.
C5_ReportEligible ==
    call.op = "shouldSendToSentry" =>
        LET r == call.error IN
        /\ r.skipSentry = Some(TRUE) => call.ret = FALSE
        /\ r.skipSentry # Some(TRUE) =>
               call.ret = ErrorConfig_shouldSendToSentry(sentryStatusRules, getHttpStatus(r))
        /\ (/\ sentryStatusRules = <<ExcludeRule(500, 599, Some(<<503>>))>>
            /\ customStatusMap = EmptyMap
            /\ customErrorTypes = EmptyMap) =>
               /\ r = busy("maintenance", None) => call.ret = FALSE
               /\ r = internal("boom", None) => call.ret = TRUE

\* A record that the rules make eligible and that sets skipSentry.
C5_Witness ==
    /\ call.op = "shouldSendToSentry"
    /\ call.error.skipSentry = Some(TRUE)
    /\ ErrorConfig_shouldSendToSentry(sentryStatusRules, getHttpStatus(call.error))
    /\ call.ret = FALSE

\* C10: after errorConfig.reset() the configuration is the initial one:
\* every built-in category resolves to its built-in default, every ad-hoc
\* category resolves to 500 and the Sentry rules are exactly [[500,599]].
C10_ResetRestoresDefaults ==
    call.op = "reset" =>
        /\ customStatusMap = EmptyMap
        /\ customErrorTypes = EmptyMap
        /\ sentryStatusRules = <<RangeRule(500, 599)>>
        /\ \A t \in ErrorType :
               getHttpStatus(createErrorData(t, "boom", None, None, None, None))
                   = DEFAULT_HTTP_STATUS_MAP[t]
        /\ \A t \in AdHocTypes \cup DOMAIN call.before.errorTypes :
               t \notin ErrorType =>
                   getHttpStatus(createErrorData(t, "boom", None, None, None, None)) = 500

\* reset() is called on a configuration with a status override, a registered
\* ad-hoc category and replaced Sentry rules.
C10_Witness ==
    /\ call.op = "reset"
    /\ "busy" \in DOMAIN call.before.statusMap
    /\ "rate_limited" \in DOMAIN call.before.errorTypes
    /\ call.before.rules = <<NumberRule(429)>>
\* C2: toErrorResponse, and toHttpResponse called without includeErrorDetails,
\* give the same status code and body for every record that agrees with the
\* given one on type, public and httpStatus, whatever its message and its
\* internal cause, context and tags are.
C2_ResponseIgnoresInternal ==
    /\ call.op = "toErrorResponse" =>
           \A m \in Messages, i \in InternalSet :
               toErrorResponse([call.error EXCEPT !.message = m, !.internal = i],
                               call.baseUrl) = call.ret
    /\ (/\ call.op = "toHttpResponse"
        /\ (call.options = None \/ call.options[1].includeErrorDetails # Some(TRUE))) =>
           \A m \in Messages, i \in InternalSet :
               toHttpResponse([call.error EXCEPT !.message = m, !.internal = i],
                              call.options) = call.ret

\* toHttpResponse without options on a 5xx record that has internal data, a
\* message and no public detail: the one place the message could go.
C2_Witness ==
    /\ call.op = "toHttpResponse"
    /\ call.options = None
    /\ call.error.internal # None
    /\ call.error.message = "secret"
    /\ call.error.public = None
    /\ call.ret.statusCode >= 500
    /\ call.ret.body.detail = None

\* C9 as stated: toHttpResponse returns statusCode = getHttpStatus(record)
\* and the body of toErrorResponse(record), with detail set to the message
\* exactly when includeErrorDetails is true, the status is >= 500 and the
\* public detail is absent; body.status is the returned statusCode.
C9_AsStated ==
    call.op = "toHttpResponse" =>
        LET e == call.error
            st == getHttpStatus(e)
            base == toErrorResponse(e, None)
            leak == /\ call.options # None
                    /\ call.options[1].includeErrorDetails = Some(TRUE)
                    /\ st >= 500
                    /\ publicField(e, "detail") = None
        IN /\ call.ret.statusCode = st
           /\ call.ret.body = IF leak THEN [base EXCEPT !.detail = Some(e.message)] ELSE base
           /\ call.ret.body.status = call.ret.statusCode

\* C9 amended: as above, but the message also replaces a public detail that
\* is the empty string (the code tests `!body.detail`).
C9_DetailAbsentOrEmpty ==
    call.op = "toHttpResponse" =>
        LET e == call.error
            st == getHttpStatus(e)
            base == toErrorResponse(e, None)
            leak == /\ call.options # None
                    /\ call.options[1].includeErrorDetails = Some(TRUE)
                    /\ st >= 500
                    /\ publicField(e, "detail") \in {None, Some("")}
        IN /\ call.ret.statusCode = st
           /\ call.ret.body = IF leak THEN [base EXCEPT !.detail = Some(e.message)] ELSE base
           /\ call.ret.body.status = call.ret.statusCode

\* includeErrorDetails is on, the status is 5xx and the public detail is "":
\* the body's detail is the message.
C9_Witness ==
    /\ call.op = "toHttpResponse"
    /\ call.options = Some([includeErrorDetails |-> Some(TRUE)])
    /\ publicField(call.error, "detail") = Some("")
    /\ call.ret.statusCode >= 500
    /\ call.ret.body.detail = Some(call.error.message)
\* The reply events of the pipe invocation in progress, and whether a body
\* carries a text.
Replies ==
    {call.ret.events[i] : i \in {j \in 1..Len(call.ret.events) :
                                     call.ret.events[j].ev = "reply"}}

BodyHasText(body, text) ==
    \/ body.type = text
    \/ body.title = text
    \/ body.detail = Some(text)
    \/ body.instance = Some(text)

\* C3: every invocation of the error pipe sends a response, even when the
\* logger call or the Sentry reporting call throws.
C3_AlwaysReplies ==
    call.op = "errorPipe" => Replies # {} /\ call.ret.threw = None

\* C6: the pipe classifies by the first matching case: ZodError ->
\* validation/422; CustomError -> its errorType, getStatusCode(), context and
\* skipSentry; a numeric statusCode -> that status, internal when >= 500 and
\* bad-input otherwise; anything else -> internal/500.
C6_Classification ==
    call.op = "errorPipe" =>
        LET e == call.error
            c == call.ret.classified
            d == call.ret.errorData
        IN /\ d.type = c.errorType
           /\ d.httpStatus = c.statusCode
           /\ d.skipSentry = Some(c.skipSentry)
           /\ IF e.kind = "ZodError" THEN
                  c.errorType = "validation" /\ c.statusCode = Some(422)
              ELSE IF e.kind = "CustomError" THEN
                  /\ c.errorType = e.errorType
                  /\ c.statusCode =
                         (IF e.statusCode # None THEN Some(e.statusCode[1].v)
                          ELSE IF e.errorType \in ErrorType
                               THEN Some(DEFAULT_HTTP_STATUS_MAP[e.errorType])
                               ELSE None)
                  /\ c.context = (IF e.context = None THEN EmptyMap ELSE e.context[1])
                  /\ c.skipSentry = (e.skipSentry = Some(TRUE))
              ELSE IF e.statusCode # None /\ e.statusCode[1].t = "number" THEN
                  /\ c.statusCode = Some(e.statusCode[1].v)
                  /\ c.errorType = (IF e.statusCode[1].v >= 500 THEN "internal"
                                    ELSE "bad-input")
              ELSE
                  c.errorType = "internal" /\ c.statusCode = Some(500)

\* A ZodError that also carries a numeric statusCode of 500: the Zod case
\* comes first.
C6_Witness ==
    /\ call.op = "errorPipe"
    /\ call.error.kind = "ZodError"
    /\ call.error.statusCode = Some(JsNumber(500))
    /\ call.ret.classified.errorType = "validation"
    /\ call.ret.classified.statusCode = Some(422)

\* C7: for a ZodError the issues map in order, one to one, to the response's
\* validation errors: field is the path joined with '.', or "root" for an
\* empty path, message is the issue message; the status is 422 and the
\* error is marked not to be reported.
C7_ZodIssues ==
    (call.op = "errorPipe" /\ call.error.kind = "ZodError") =>
        LET issues == call.error.issues
            fieldOf(path) ==
                CASE Len(path) = 0 -> "root"
                  [] Len(path) = 1 -> path[1]
                  [] Len(path) = 2 -> path[1] \o "." \o path[2]
                  [] Len(path) = 3 -> path[1] \o "." \o path[2] \o "." \o path[3]
            sent(body) == IF body.errors = None THEN <<>> ELSE body.errors[1]
        IN /\ call.ret.threw = None
           /\ Cardinality(Replies) = 1
           /\ \A r \in Replies :
                  /\ r.code = 422
                  /\ r.body.status = 422
                  /\ Len(sent(r.body)) = Len(issues)
                  /\ \A i \in 1..Len(issues) :
                         /\ sent(r.body)[i].field = fieldOf(issues[i].path)
                         /\ sent(r.body)[i].message = issues[i].message
           /\ call.ret.errorData.skipSentry = Some(TRUE)
           /\ ~shouldSendToSentry(call.ret.errorData)
           /\ \A i \in 1..Len(call.ret.events) :
                  call.ret.events[i].ev # "captureException"

\* The issue list of P5, under Sentry rules that include 422 and with a
\* Sentry client: the reply carries email and root, in this order.
C7_Witness ==
    /\ call.op = "errorPipe"
    /\ call.error.kind = "ZodError"
    /\ call.error.issues = <<Issue(<<"email">>, "Invalid email"), Issue(<<>>, "bad root")>>
    /\ call.env.sentryInitialized
    /\ ErrorConfig_shouldSendToSentry(sentryStatusRules, 422)
    /\ \E r \in Replies :
           /\ r.body.errors # None
           /\ r.body.errors[1][1].field = "email"
           /\ r.body.errors[1][2].field = "root"
           /\ r.body.errors[1][2].message = "bad root"

\* C8: a response of the pipe carries the error's message only if the
\* includeErrorDetails option was set to true (and then only for a status
\* >= 500 with no public detail).
C8_MessageOnlyWithIncludeErrorDetails ==
    call.op = "errorPipe" =>
        \A r \in Replies :
            BodyHasText(r.body, call.error.message) =>
                /\ call.options # None
                /\ call.options[1].includeErrorDetails = Some(TRUE)
                /\ r.code >= 500
                /\ call.ret.errorData.public = None

ContextOf(record) == record.internal[1].context[1]

PerCallContext(options) ==
    IF options = None \/ options[1].internal = None
       \/ options[1].internal[1].context = None
    THEN EmptyMap
    ELSE options[1].internal[1].context[1]

\* The keys a category factory populates from its own arguments.
AutoContext(name, first, second) ==
    LET with(base, key) == IF second # None /\ second[1] # ""
                           THEN MapSet(base, key, second[1]) ELSE base
    IN CASE name = "notFound" ->
                IF second # None THEN [resource |-> first, resource_id |-> second[1]]
                ELSE [resource |-> first]
         [] name = "validation" -> with(EmptyMap, "field")
         [] name \in {"forbidden", "conflict"} -> with([resource |-> first], "reason")
         [] name = "unauthorized" -> with(EmptyMap, "reason")
         [] name = "external" -> [service |-> first]
         [] name = "timeout" -> with([operation |-> first], "duration")
         [] OTHER -> EmptyMap

\* C12: the record an ErrorFactory method returns has an internal.context
\* with every entry of the bound context and the keys the category factory
\* populates itself (notFound: resource, resource_id); a key the per-call
\* options.internal.context also gives keeps the per-call value.
C12_BoundContextMerge ==
    call.op = "ErrorFactory" =>
        LET ctx == ContextOf(call.ret)
            perCall == PerCallContext(call.options)
            auto == AutoContext(call.name, call.first, call.second)
        IN /\ call.ret.internal # None /\ call.ret.internal[1].context # None
           /\ \A k \in DOMAIN call.context :
                  /\ k \in DOMAIN ctx
                  /\ k \notin DOMAIN perCall => ctx[k] = call.context[k]
           /\ \A k \in DOMAIN perCall : k \in DOMAIN ctx /\ ctx[k] = perCall[k]
           /\ \A k \in DOMAIN auto :
                  /\ k \in DOMAIN ctx
                  /\ k \notin DOMAIN perCall \cup DOMAIN call.context => ctx[k] = auto[k]

\* P7: a factory bound to requestId r1 produces notFound("user", "42") with
\* a per-call requestId r2: the context has r2, resource and resource_id.
C12_Witness ==
    /\ call.op = "ErrorFactory"
    /\ call.name = "notFound"
    /\ call.second = Some("42")
    /\ call.context = [requestId |-> "r1", url |-> "/users/42"]
    /\ PerCallContext(call.options) = [requestId |-> "r2"]
    /\ ContextOf(call.ret) = [requestId |-> "r2", url |-> "/users/42",
                               resource |-> "user", resource_id |-> "42"]

\* The category each factory produces.
CategoryOf(name) ==
    CASE name = "notFound" -> "not-found"
      [] name = "badInput" -> "bad-input"
      [] OTHER -> name

\* C13: each of the eleven factories returns a record of its own category
\* in which every field given in options.public replaces the factory's
\* default, every key of options.internal.context wins over the factory's
\* own key of that name, and httpStatus and skipSentry are those of options.
C13_FactoryOptions ==
    call.op = "factory" =>
        LET o == call.options
            given == IF o = None THEN None ELSE o[1].public
            perCall == PerCallContext(o)
        IN /\ call.ret.type = CategoryOf(call.name)
           /\ call.ret.type \in ErrorType
           /\ given # None =>
                  \A f \in DOMAIN given[1] :
                      given[1][f] # None => call.ret.public[1][f] = given[1][f]
           /\ \A k \in DOMAIN perCall : ContextOf(call.ret)[k] = perCall[k]
           /\ call.ret.httpStatus = (IF o = None THEN None ELSE o[1].httpStatus)
           /\ call.ret.skipSentry = (IF o = None THEN None ELSE o[1].skipSentry)

\* conflict("user", "42", options) whose per-call context gives resource and
\* reason, the two keys the factory populates itself, and a public title.
C13_Witness ==
    /\ call.op = "factory"
    /\ call.name = "conflict"
    /\ call.second = Some("42")
    /\ PerCallContext(call.options) = [resource |-> "override", reason |-> "why"]
    /\ call.options[1].public # None
    /\ call.options[1].public[1].title = Some("Custom title")
    /\ call.options[1].httpStatus = Some(418)
    /\ ContextOf(call.ret).resource = "override"
    /\ call.ret.public[1].title = Some("Custom title")

\* The documented status of each factory (README, Available Error Types).
DocumentedStatus(name) ==
    CASE name = "notFound" -> 404
      [] name = "validation" -> 400
      [] name = "badInput" -> 400
      [] name = "unauthorized" -> 401
      [] name = "forbidden" -> 403
      [] name = "conflict" -> 409
      [] name = "internal" -> 500
      [] name = "database" -> 500
      [] name = "external" -> 502
      [] name = "timeout" -> 504
      [] name = "busy" -> 503

DefaultConfiguration == customStatusMap = EmptyMap /\ customErrorTypes = EmptyMap

DefaultTitle(category) ==
    CASE category = "not-found" -> "Resource Not Found"
      [] category = "validation" -> "Validation Failed"
      [] category = "database" -> "Database Error"
      [] category = "internal" -> "Internal Server Error"
      [] category = "forbidden" -> "Access Forbidden"
      [] category = "unauthorized" -> "Unauthorized"
      [] category = "bad-input" -> "Bad Request"
      [] category = "conflict" -> "Resource Conflict"
      [] category = "external" -> "External Service Error"
      [] category = "timeout" -> "Request Timeout"
      [] category = "busy" -> "Service Unavailable"

\* The built-in default status of each category.
CategoryStatus(category) ==
    CASE category \in {"internal", "database"} -> 500
      [] category = "not-found" -> 404
      [] category \in {"validation", "bad-input"} -> 400
      [] category = "busy" -> 503
      [] category = "forbidden" -> 403
      [] category = "unauthorized" -> 401
      [] category = "conflict" -> 409
      [] category = "external" -> 502
      [] category = "timeout" -> 504

\* C15: for a thrown CustomError of a built-in category C with no explicit
\* status and with debug detail off, the pipe replies with the built-in
\* default status of C, the default title of C ("Resource Conflict" for
\* conflict) and a body that does not carry the error's message.
C15_CategoryDefaults ==
    (/\ call.op = "errorPipe"
     /\ call.error.kind = "CustomError"
     /\ call.error.errorType \in ErrorType
     /\ call.error.statusCode = None
     /\ ~shouldIncludeDetails(call.options)) =>
        \A r \in Replies :
            /\ r.code = CategoryStatus(call.error.errorType)
            /\ r.body.title = DefaultTitle(call.error.errorType)
            /\ ~BodyHasText(r.body, call.error.message)

\* C16: a ZodError handled by the pipe is never handed to sendToSentry,
\* whatever the Sentry status rules are, rules that contain 422 included.
C16_ZodNeverReported ==
    (call.op = "errorPipe" /\ call.error.kind = "ZodError") =>
        /\ ~call.ret.sendToSentryCalled
        /\ \A i \in 1..Len(call.ret.events) :
               call.ret.events[i].ev \notin {"captureException", "console.warn"}

\* A ZodError is handled with a Sentry client present and rules under which
\* its status 422 is eligible; the pipe replies and reports nothing.
C16_Witness ==
    /\ call.op = "errorPipe"
    /\ call.error.kind = "ZodError"
    /\ call.env.sentryInitialized
    /\ ~call.env.sentryThrows
    /\ ErrorConfig_shouldSendToSentry(sentryStatusRules, 422)
    /\ Replies # {}
    /\ ~call.ret.sendToSentryCalled

\* The redact list a pipe invocation works with, and the context it logs and
\* reports.
RedactListOf(options) ==
    LET list == IF options = None \/ options[1].redactHeaders = None
                THEN DefaultRedactHeaders ELSE options[1].redactHeaders[1]
    IN {list[i] : i \in 1..Len(list)}

LoggedContext == call.ret.errorData.internal[1].context[1]

\* C17: for every header of the redactHeaders list that the request carries,
\* the header's original value is nowhere in the context the pipe logs or
\* reports: where it would stand there is the literal "[REDACTED]".
C17_HeadersRedacted ==
    call.op = "errorPipe" =>
        \A h \in RedactListOf(call.options) \cap DOMAIN call.request.headers :
            LET original == call.request.headers[h]
                ctx == LoggedContext
            IN /\ ctx.headers[h] = REDACTED
               /\ \A k \in DOMAIN ctx.headers : ctx.headers[k] # original
               /\ ctx.userAgent # Some(original)
               /\ ctx.url # original
               /\ ctx.ip # original

\* C18: when the thrown error's own context and the request context the
\* pipe derives have the same key, the record's internal.context keeps the
\* value of the error's context.
C18_ErrorContextWins ==
    (/\ call.op = "errorPipe"
     /\ call.error.kind = "CustomError"
     /\ call.error.context # None) =>
        \A k \in DOMAIN call.error.context[1] :
            /\ k \in DOMAIN LoggedContext
            /\ LoggedContext[k] = call.error.context[1][k]

\* C19: createErrorData fails with an InvalidArgument-style error and returns
\* no record when the message is the empty string or when the category is
\* neither built in nor registered through registerErrorType.
C19_RejectsInvalidArguments ==
    (/\ call.op = "createErrorData"
     /\ \/ call.message = ""
        \/ call.type \notin ErrorType \cup DOMAIN customErrorTypes) =>
        call.threw # None /\ call.ret = None

\* C20: the active Sentry rules are isolated from their callers: after
\* setSentryStatusRules(rules) no mutation of the passed list or of a rule
\* in it, and no mutation of the list getSentryStatusRules returned or of a
\* rule in it, changes the active rules (what shouldSendToSentry answers).
C20_RulesIsolated ==
    call.op \in {"mutateList", "mutateRule"} =>
        /\ sentryStatusRules = call.before
        /\ \A s \in ProbeStatuses :
               ErrorConfig_shouldSendToSentry(sentryStatusRules, s)
                   = ErrorConfig_shouldSendToSentry(call.before, s)

\* The Sentry capture calls among the events of the call in progress.
Captures ==
    {i \in 1..Len(call.ret.events) :
        call.ret.events[i].ev \in {"captureException", "captureMessage"}}

\* C21: sendToSentry makes no capture call when Sentry was never
\* initialized, and it never throws to its caller: an error raised by the
\* Sentry SDK during the call is caught.
C21_SendToSentryContained ==
    call.op = "sendToSentry" =>
        /\ call.ret.threw = None
        /\ ~call.env.sentryInitialized => Captures = {}

\* A client exists and the Sentry SDK throws inside the call: the error ends
\* in console.warn.
C21_Witness ==
    /\ call.op = "sendToSentry"
    /\ call.env.sentryInitialized
    /\ ~call.env.getClientThrows
    /\ call.env.sentryThrows
    /\ call.ret.events = <<[ev |-> "console.warn"]>>
    /\ call.ret.threw = None

\* C22: while logConfig.enableSentry is false, neither sendToSentry nor the
\* error pipe makes a Sentry capture call, even with a Sentry client
\* initialized.
C22_DisabledMeansNoCapture ==
    (call.op \in {"sendToSentry", "errorPipe"} /\ ~enableSentry) => Captures = {}

C29_HookStartedOnce == proc.hookStarts <= 1

\* C25: when public.type is already a full URL, toErrorResponse(record)
\* without a baseUrl returns that URL unchanged as the type.
FullUrls == {"https://api.example.com/errors/user-not-found"}

C25_FullUrlKept ==
    (/\ call.op = "toErrorResponse"
     /\ call.baseUrl = None
     /\ publicField(call.error, "type") # None
     /\ publicField(call.error, "type")[1] \in FullUrls)
        => call.ret.type = publicField(call.error, "type")[1]

\* C26: wrap(e) returns the same instance with cause e; after any sequence
\* of wrap calls and stack reads, the stack read is the instance's own
\* stack followed by exactly one "Caused by:" section, that of its current
\* cause.
C26_SingleCausedBy ==
    /\ (custom.ret # None /\ custom.ret[1].op = "wrap") =>
           custom.ret[1].value = "this" /\ custom.cause # None
    /\ (/\ custom.ret # None
        /\ custom.ret[1].op = "stack"
        /\ ~custom.assigned
        /\ custom.cause # None
        /\ custom.cause[1].stack # None)
           => custom.ret[1].value = <<OwnStack, custom.cause[1].stack[1]>>

\* C27: every response of the pipe with a status >= 500 is preceded, in the
\* same invocation, by exactly one error-level log entry carrying
\* toLogObject(record) and the original stack; a response with a status
\* below 500 is preceded by none.
C27_ServerErrorsLogged ==
    call.op = "errorPipe" =>
        \A k \in 1..Len(call.ret.events) :
            call.ret.events[k].ev = "reply" =>
                LET logs == {j \in 1..(k - 1) : call.ret.events[j].ev = "logger.error"}
                IN IF call.ret.events[k].code >= 500
                   THEN /\ Cardinality(logs) = 1
                        /\ \A j \in logs :
                               /\ call.ret.events[j].obj.log = toLogObject(call.ret.errorData)
                               /\ call.ret.events[j].obj.stack = call.error.stack
                   ELSE logs = {}

\* C28: in every configuration, a CustomError of category C thrown without
\* an explicit statusCode is answered with the status getHttpStatus gives
\* an ErrorData of category C without httpStatus.
C28_SameStatusAsErrorData ==
    (/\ call.op = "errorPipe"
     /\ call.error.kind = "CustomError"
     /\ call.error.statusCode = None)
        => \A r \in Replies :
               r.code = getHttpStatus(createErrorData(call.error.errorType,
                                          call.error.message, None, None, None, None))

\* C30: the reference count of the default log transport is never
\* negative, and a transport is ended only when the releases since its
\* creation have reached the number of createLogger calls that obtained it.
C30_RefCountSound ==
    /\ transport.transportRefCount >= 0
    /\ \A i \in 1..Len(transport.ended) :
           transport.ended[i].released >= transport.ended[i].obtained
====
